---------------------------- MODULE Spec2Model ----------------------------
(***************************************************************************)
(* Model of the e-mail ingestion service (krvelbr/emailJob).               *)
(*                                                                         *)
(* Two code paths start a run:                                             *)
(*   - the periodic job, scheduler._run_email_job ->                       *)
(*     EmailFetchService.fetch_and_store_emails (email_fetch_service.py),  *)
(*   - the on-demand trigger, main.trigger_job ->                          *)
(*     services.run_email_check_job (services.py).                         *)
(* The record store is a transactional database: every run and every API   *)
(* handler owns a session; rows a session has flushed are visible to that  *)
(* session only, until it commits.  The blob store is a directory of       *)
(* files, written and removed outside any transaction.                     *)
(*                                                                         *)
(* The database engine is the one settings.database_url selects            *)
(* (config.py:14, by default SQLite).  Two kinds are told apart:           *)
(*   - "sqlite": the id columns of models.py, plain integer primary keys,  *)
(*     get the largest rowid in use plus one, so the identifier of a       *)
(*     deleted last row is handed out again; a session that has flushed    *)
(*     holds the write lock of the database file until it commits or rolls *)
(*     back, and the writes of other sessions wait for it;                 *)
(*   - "server": identifiers come from sequences and are never handed out  *)
(*     twice; sessions that write different rows do not wait.              *)
(***************************************************************************)
EXTENDS Integers, Sequences, FiniteSets, TLC

\* ------------------------------------------------------------------ bounds
\* Runs (scheduled and on-demand together) started in one behaviour.
MaxRuns == 2
\* Message numbers the IMAP searches of one behaviour return, all runs
\* together.
MaxFetched == 2

\* ------------------------------------------------------------ value domains
\* Python's None for a text value (an absent header, a NULL column).
None == "%None%"

\* Mutant of Falsy: only None counts, the empty string does not.
Falsy_none(s) == s = None

\* A string is "falsy" in Python when it is None or empty.
Falsy(s) == s = None \/ s = ""

\* The raw messages the mailbox may hold: the Message-ID header as
\* msg.get("Message-ID") returns it, the file names of the parts whose
\* Content-Disposition is "attachment" ("" : the part has no file name),
\* and the From header, the Subject header and the text body as sequences
\* of characters (<< None >> : the header is absent), and the charset the
\* text part declares (None : it declares none).
Mailbox ==
    { [message_id |-> "a",  parts |-> <<>>, charset |-> None,
       sender |-> <<"b">>, subject |-> << None >>, body |-> <<>>,
       date |-> None],
      [message_id |-> "b",  parts |-> <<"", "g">>, charset |-> "utf-8",
       sender |-> <<"b", "A">>, subject |-> <<"X">>, body |-> <<"x">>,
       date |-> "1 Jan"],
      [message_id |-> "c",  parts |-> <<>>, charset |-> "x-unknown",
       sender |-> <<"b">>, subject |-> << None >>, body |-> <<"x">>,
       date |-> "Mon, 1 Jan 2024 00:00:00 +0000"],
      [message_id |-> None, parts |-> <<>>, charset |-> None,
       sender |-> <<"b">>, subject |-> << None >>, body |-> <<>>,
       date |-> None],
      [message_id |-> "",   parts |-> <<>>, charset |-> None,
       sender |-> <<"b">>, subject |-> << None >>, body |-> <<>>,
       date |-> "Mon, 1 Jan 2024 00:00:00 +0000"] }

\* payload.decode(charset, errors="ignore") with charset =
\* get_content_charset() or "utf-8" (lines 126-134), called when the
\* payload is not empty, returns for a codec Python knows; for any other
\* name it raises LookupError, which errors="ignore" does not cover.
decode_raises(payload, charset) ==
    payload # <<>> /\ charset \notin { None, "utf-8" }

\* The sequences over S of length at most n.
RECURSIVE SeqsUpTo(_, _)
SeqsUpTo(S, n) ==
    IF n = 0 THEN { <<>> }
    ELSE LET shorter == SeqsUpTo(S, n - 1)
         IN  shorter \cup { Append(q, x) : q \in shorter, x \in S }

\* The rows of a result set as the list scalars().all() returns, in the
\* order the engine yields them.
RECURSIVE RowList(_)
RowList(rows) ==
    IF rows = {} THEN <<>>
    ELSE LET r == CHOOSE x \in rows : TRUE
         IN  << r >> \o RowList(rows \ { r })

\* ------------------------------------------------------------------- state
VARIABLES
    emails,           \* committed rows of table emails
    attachments,      \* committed rows of table attachments
    job_runs,         \* committed rows of table job_runs
    email_filters,    \* committed rows of table email_filters
    blobs,            \* files of settings.attachments_dir: name -> content
    next_email_id,    \* next identifier of table emails
    next_attachment_id,
    next_job_run_id,  \* one more than the runs started; the next
                      \* identifier of table job_runs on a "server" engine
    sched,            \* the APScheduler job: its position and locals
    trig,             \* the JobRun rows of the POST /job/trigger in flight
    unlink_pending,   \* delete_attachment handlers between commit and remove
    failed_writes,    \* history: blob writes that raised, with their run
    searched,         \* history: message numbers the searches returned
    engine,           \* the kind of database engine: "sqlite" or "server"
    f_email,          \* filter harness: the candidate
    f_filters,        \* filter harness: the rule list
    f_result,         \* filter harness: what apply_filters_to_email returned
    _scheduler,       \* scheduler.py:12, the module global: the identity
                      \* of the scheduler object it refers to, 0 for None
    schedulers,       \* the scheduler objects that are running, each with
                      \* the identifiers of the jobs added to it
    lifecycle         \* history: the calls of start_scheduler and
                      \* shutdown_scheduler made, and the kind of the last

vars == << emails, attachments, job_runs, email_filters, blobs,
           next_email_id, next_attachment_id, next_job_run_id,
           sched, trig, unlink_pending, failed_writes, searched,
           engine, f_email, f_filters, f_result,
           _scheduler, schedulers, lifecycle >>

store_vars == << emails, attachments, job_runs, email_filters, blobs,
                 next_email_id, next_attachment_id, next_job_run_id >>

harness_vars == << f_email, f_filters, f_result >>

coordinator_vars == << _scheduler, schedulers, lifecycle >>

\* What no action of the running service changes: the engine, the harness
\* and the coordinator.
env_vars == << engine, harness_vars, coordinator_vars >>

\* ------------------------------------------------------------------ models
\* models.JobRun as JobRunRepository.create leaves it: the column defaults.
JobRunRepository_create(id) ==
    [ id |-> id, status |-> "running", messages_fetched |-> 0,
      messages_saved |-> 0, finished_at |-> None, error_message |-> None ]

\* Mutant of JobRunRepository_finish: the status is left as it was.
JobRunRepository_finish_keep(job_run, fetched, saved, status, error_message) ==
    [ job_run EXCEPT !.finished_at = "set",
                     !.messages_fetched = fetched,
                     !.messages_saved = saved,
                     !.error_message = error_message ]

\* Mutant of JobRunRepository_finish: every run is finished as success.
JobRunRepository_finish_success(job_run, fetched, saved, status, error_message) ==
    [ job_run EXCEPT !.finished_at = "set",
                     !.messages_fetched = fetched,
                     !.messages_saved = saved,
                     !.status = "success",
                     !.error_message = error_message ]

\* Mutant of JobRunRepository_finish: the two counters change places.
JobRunRepository_finish_swapped(job_run, fetched, saved, status, error_message) ==
    [ job_run EXCEPT !.finished_at = "set",
                     !.messages_fetched = saved,
                     !.messages_saved = fetched,
                     !.status = status,
                     !.error_message = error_message ]

\* JobRunRepository.finish: sets the five fields, whatever they were.
JobRunRepository_finish(job_run, fetched, saved, status, error_message) ==
    [ job_run EXCEPT !.finished_at = "set",
                     !.messages_fetched = fetched,
                     !.messages_saved = saved,
                     !.status = status,
                     !.error_message = error_message ]

\* The kinds of engine settings.database_url may select.
Engines == { "sqlite", "server" }

\* The largest identifier of a set of rows, 0 when there is none.
MaxId(rows) ==
    IF rows = {} THEN 0
    ELSE CHOOSE m \in { r.id : r \in rows } : \A r \in rows : r.id <= m

\* The identifier an INSERT into a table gets (models.py: id = Column(
\* Integer, primary_key=True)): the next value of the table's counter, or
\* with SQLite's rowid one more than the largest identifier the session
\* sees in the table.
NewId(rows, counter) ==
    IF engine = "sqlite" THEN MaxId(rows) + 1 ELSE counter

\* The table's counter after the INSERT: a sequence value is consumed for
\* good, a rowid table keeps no counter.
Consumed(counter) == IF engine = "sqlite" THEN counter ELSE counter + 1

\* Mutants of EmailsWithMessageId: no row is ever found; only committed
\* rows are seen, not those the session has flushed; soft-deleted rows are
\* left out.
EmailsWithMessageId_none(rows, mid) == {}

EmailsWithMessageId_committed(rows, mid) ==
    { e \in rows \cap emails : e.message_id = mid }

EmailsWithMessageId_live(rows, mid) ==
    { e \in rows : e.message_id = mid /\ ~ e.is_deleted }

\* The rows of a set of emails rows whose column message_id equals mid
\* (the unique, indexed column the dedup query and the constraint use).
EmailsWithMessageId(rows, mid) == { e \in rows : e.message_id = mid }

\* EmailRepository.get_by_message_id in a session that sees `rows`.
get_by_message_id(rows, mid) == EmailsWithMessageId(rows, mid)

\* models.Email as EmailRepository.create builds it (is_deleted defaults
\* to False); `run` is history: the run whose session inserted the row.
EmailRepository_create(id, mid, received_at, run) ==
    [ id |-> id, message_id |-> mid, received_at |-> received_at,
      is_deleted |-> FALSE, run |-> run ]

\* email.utils.parsedate_to_datetime: the Date headers it converts, with
\* the datetime it returns; for any other text it raises.
ParsedDates ==
    [ h \in { "Mon, 1 Jan 2024 00:00:00 +0000" } |-> "2024-01-01T00:00:00Z" ]

parsedate_raises(date_header) == date_header \notin DOMAIN ParsedDates

\* datetime.utcnow() at the time the message is handled.
UTCNOW == "utcnow"

\* Lines 136-145: received_at starts as the current time and is replaced
\* by the parsed Date header when there is one and it can be parsed; the
\* exception of the parser is swallowed.
received_at_of(date_header) ==
    IF Falsy(date_header) THEN UTCNOW
    ELSE IF parsedate_raises(date_header) THEN UTCNOW
    ELSE ParsedDates[date_header]

\* The stored name of an attachment: the placeholder, or the final name
\* f"ID{email_id:08d}-{attachment_id:08d}-{filename}", kept as its three
\* arguments (the format is injective: both numbers are delimited).
PENDING == [ email_id |-> 0, attachment_id |-> 0, filename |-> "PENDING" ]

stored_name(email_id, attachment_id, filename) ==
    [ email_id |-> email_id, attachment_id |-> attachment_id,
      filename |-> filename ]

AttachmentRepository_create(id, email_id, filename, filename_stored) ==
    [ id |-> id, email_id |-> email_id, filename_original |-> filename,
      filename_stored |-> filename_stored ]


\* ------------------------------------------------------------ blob store
NoBlobs == [ n \in {} |-> None ]

\* open(path, "wb"); f.write(data) that returns: the file holds all bytes.
\* `run` is history: the run that wrote the file.
WriteBlob(files, name, content, run) ==
    (name :> [ content |-> content, run |-> run ]) @@ files

\* os.remove(path).
RemoveBlob(files, name) == [ n \in DOMAIN files \ {name} |-> files[n] ]

\* --------------------------------------------------- the scheduled run
NoJobRun == JobRunRepository_create(0)

\* History of the last pass of the fetch loop: how it ended, the Message-ID
\* it read and the rows its dedup query returned.
LastPass(why, message_id, existing) ==
    [ why |-> why, message_id |-> message_id, existing |-> existing ]

\* History of the end of the run: the statement it was at and the message
\* numbers it had left when finish was called.
Ended(pc, left) == [ pc |-> pc, left |-> left ]

\* The job between two firings: no session, no locals.
SchedIdle ==
    [ pc |-> "idle", job_run |-> NoJobRun, tx_emails |-> {},
      tx_attachments |-> {}, messages_fetched |-> 0, messages_saved |-> 0,
      message_nums |-> 0, email_record |-> 0, parts |-> <<>>,
      last |-> LastPass("none", None, {}), ended |-> Ended("none", 0) ]

\* What the session of the scheduled run reads: committed rows and its own
\* flushed rows.
SchedEmails == emails \cup sched.tx_emails

\* The scheduled run holds the write lock of the SQLite file: from the
\* flush of its JobRun row to its commit or rollback.
WriteLocked ==
    engine = "sqlite" /\ sched.pc \notin { "idle", "release", "escaped" }

\* ---------------------------------------------------------- the coordinator
\* The calls of start_scheduler and shutdown_scheduler a behaviour makes.
MaxCalls == 3

\* The value None of the global: no object has identity 0.
NoScheduler == 0

\* Mutant of already_started: the guard of start_scheduler never holds.
already_started_never(scheduler) == FALSE

\* scheduler.py:30, `_scheduler is not None`.
already_started(scheduler) == scheduler # NoScheduler

\* BaseScheduler.add_job with replace_existing=True (scheduler.py:34-40): a
\* job of the same identifier is replaced, any other is kept.
add_job(jobs, id) ==
    Append(SelectSeq(jobs, LAMBDA j : j # id), id)

\* AsyncIOScheduler() followed by add_job and start (lines 33-41): a
\* running scheduler object holding the periodic job.
AsyncIOScheduler(id) ==
    [ id |-> id, jobs |-> add_job(<<>>, "email_fetch_job") ]

NoCalls == [ calls |-> 0, last |-> "none" ]

Called(kind) == [ calls |-> lifecycle.calls + 1, last |-> kind ]

\* Some running scheduler holds the periodic job.
JobScheduled ==
    \E s \in schedulers :
       \E i \in DOMAIN s.jobs : s.jobs[i] = "email_fetch_job"

\* scheduler.start_scheduler, lines 28-43.
start_scheduler ==
    /\ lifecycle.calls < MaxCalls
    /\ lifecycle' = Called("start")
    /\ IF already_started(_scheduler)
       THEN UNCHANGED << _scheduler, schedulers >>
       ELSE LET scheduler == AsyncIOScheduler(lifecycle.calls + 1)
            IN  /\ schedulers' = schedulers \cup { scheduler }
                /\ _scheduler' = scheduler.id
    /\ UNCHANGED << store_vars, sched, trig, unlink_pending, failed_writes,
                    searched, engine, harness_vars >>

\* scheduler.shutdown_scheduler, lines 46-51: shutdown(wait=False) stops
\* the scheduler without waiting for a job that is running.
shutdown_scheduler ==
    /\ lifecycle.calls < MaxCalls
    /\ lifecycle' = Called("shutdown")
    /\ IF _scheduler # NoScheduler
       THEN /\ schedulers' = { s \in schedulers : s.id # _scheduler }
            /\ _scheduler' = NoScheduler
       ELSE UNCHANGED << _scheduler, schedulers >>
    /\ UNCHANGED << store_vars, sched, trig, unlink_pending, failed_writes,
                    searched, engine, harness_vars >>

\* scheduler._run_email_job up to email_fetch_service.py:51: the interval
\* trigger fires, a session is opened and JobRunRepository.create flushes a
\* JobRun row that is not committed.  APScheduler runs at most one instance
\* of a job (max_instances defaults to 1): a firing while the previous
\* instance still runs is skipped.
run_email_job ==
    /\ JobScheduled
    /\ sched.pc = "idle"
    /\ next_job_run_id <= MaxRuns
    /\ sched' = [ SchedIdle EXCEPT
                    !.pc = "open",
                    !.job_run = JobRunRepository_create(
                                   NewId(job_runs, next_job_run_id)) ]
    /\ next_job_run_id' = next_job_run_id + 1
    /\ UNCHANGED << emails, attachments, job_runs, email_filters, blobs,
                    next_email_id, next_attachment_id, trig, unlink_pending,
                    failed_writes, searched, env_vars >>

\* email_fetch_service.py:53, outside the try: when open_imap_connection
\* raises (token exchange, connect or XOAUTH2 failure) the exception leaves
\* fetch_and_store_emails, _run_email_job logs it and closes the session,
\* which discards the flushed JobRun row.
open_imap_connection ==
    /\ sched.pc = "open"
    /\ \E opened \in BOOLEAN :
         sched' = IF opened THEN [ sched EXCEPT !.pc = "select" ]
                  ELSE SchedIdle
    /\ UNCHANGED << store_vars, trig, unlink_pending, failed_writes,
                    searched, env_vars >>

\* open_imap_connection statement by statement, for what holds between
\* its statements.  gmail_oauth_service.py:47-52: the access token is
\* fetched and IMAP4_SSL connects; when either raises there is no
\* connection and the exception leaves the run as in open_imap_connection.
imap_connect ==
    /\ sched.pc = "open"
    /\ \E connected \in BOOLEAN :
         sched' = IF connected THEN [ sched EXCEPT !.pc = "authenticate" ]
                  ELSE SchedIdle
    /\ UNCHANGED << store_vars, trig, unlink_pending, failed_writes,
                    searched, env_vars >>

\* gmail_oauth_service.py:54-71: imap.authenticate("XOAUTH2", ...) on the
\* connection; when it raises or answers other than OK the exception
\* leaves open_imap_connection, and the run, with the connection as it is.
imap_authenticate ==
    /\ sched.pc = "authenticate"
    /\ \E typ \in { "OK", "NO", "raise" } :
         sched' = IF typ = "OK" THEN [ sched EXCEPT !.pc = "select" ]
                  ELSE SchedIdle
    /\ UNCHANGED << store_vars, trig, unlink_pending, failed_writes,
                    searched, env_vars >>

\* JobRunRepository.finish followed by db.commit() on a path that did not
\* roll back (lines 59-68, 76-85): the session's rows are committed.
FinishAndCommit(fetched, saved, status, error_message) ==
    /\ job_runs' = job_runs \cup
         { JobRunRepository_finish(sched.job_run, fetched, saved, status,
                                   error_message) }
    /\ emails' = emails \cup sched.tx_emails
    /\ attachments' = attachments \cup sched.tx_attachments
    /\ sched' = [ sched EXCEPT !.pc = "release", !.tx_emails = {},
                               !.tx_attachments = {},
                               !.ended = Ended(sched.pc,
                                               sched.message_nums) ]

\* Mutant of Raised: the handler commits without rolling back first.
Raised_commit(at, error_message) ==
    /\ job_runs' = job_runs \cup
         { JobRunRepository_finish(sched.job_run, sched.messages_fetched,
                                   sched.messages_saved, "error",
                                   error_message) }
    /\ emails' = emails \cup sched.tx_emails
    /\ attachments' = attachments \cup sched.tx_attachments
    /\ sched' = [ sched EXCEPT !.pc = "release", !.tx_emails = {},
                               !.tx_attachments = {}, !.message_nums = 0,
                               !.parts = <<>>, !.email_record = 0,
                               !.ended = Ended(at, sched.message_nums) ]

\* The handler of lines 209-220: db.rollback() drops every row the session
\* flushed (the JobRun row included: it becomes transient again), finish
\* sets the fields on the object and adds it back, db.commit() inserts it.
\* The counters are the locals as they stand.  `at` is history: the
\* statement that raised.
Raised(at, error_message) ==
    /\ job_runs' = job_runs \cup
         { JobRunRepository_finish(sched.job_run, sched.messages_fetched,
                                   sched.messages_saved, "error",
                                   error_message) }
    /\ sched' = [ sched EXCEPT !.pc = "release", !.tx_emails = {},
                               !.tx_attachments = {}, !.message_nums = 0,
                               !.parts = <<>>, !.email_record = 0,
                               !.ended = Ended(at, sched.message_nums) ]
    /\ UNCHANGED << emails, attachments >>

\* The handler entered from the statement the run is at.
ExceptHandler(error_message) == Raised(sched.pc, error_message)

\* imap.select("INBOX"), lines 56-68.
imap_select ==
    /\ sched.pc = "select"
    /\ \E typ \in { "OK", "NO", "raise" } :
         CASE typ = "OK" ->
                /\ sched' = [ sched EXCEPT !.pc = "search" ]
                /\ UNCHANGED << emails, attachments, job_runs >>
           [] typ = "NO" ->
                FinishAndCommit(0, 0, "error", "detail")
           [] OTHER -> ExceptHandler("detail")
    /\ UNCHANGED << email_filters, blobs, next_email_id, next_attachment_id,
                    next_job_run_id, trig, unlink_pending, failed_writes,
                    searched, env_vars >>

\* imap.search, lines 70-89: on OK the message numbers found become the
\* work list (kept as their count: what a number stands for is known only
\* once it is fetched) and messages_fetched their count.
imap_search ==
    /\ sched.pc = "search"
    /\ \/ \E nums \in 0 .. (MaxFetched - searched) :
            /\ sched' = [ sched EXCEPT !.pc = "loop", !.message_nums = nums,
                                       !.messages_fetched = nums ]
            /\ searched' = searched + nums
            /\ UNCHANGED << emails, attachments, job_runs >>
       \/ /\ FinishAndCommit(0, 0, "error", "detail")
          /\ UNCHANGED searched
       \/ /\ ExceptHandler("detail")
          /\ UNCHANGED searched
    /\ UNCHANGED << email_filters, blobs, next_email_id, next_attachment_id,
                    next_job_run_id, trig, unlink_pending, failed_writes,
                    env_vars >>


\* One pass of the loop of lines 91-156 for the next message number, up to
\* the walk over its parts: fetch, Message-ID, dedup query, and
\* EmailRepository.create, whose flush enforces the unique constraint of
\* emails.message_id.  A message without attachment parts is counted as
\* saved at once (line 197).  No FilterRule is read on this path.
fetch_message ==
    /\ sched.pc = "loop"
    /\ sched.message_nums > 0
    /\ \E msg \in Mailbox, typ \in { "OK", "NO", "raise" } :
       LET rest == sched.message_nums - 1
           email_id == NewId(SchedEmails, next_email_id)
           existing == get_by_message_id(SchedEmails, msg.message_id)
           skip(why, message_id, found) ==
               /\ sched' = [ sched EXCEPT
                               !.message_nums = rest,
                               !.last = LastPass(why, message_id, found) ]
               /\ UNCHANGED << job_runs, next_email_id >>
       IN
             CASE typ = "raise" ->
                    /\ ExceptHandler("detail")
                    /\ UNCHANGED next_email_id
               [] typ = "NO" -> skip("fetch_failed", None, {})
               [] OTHER ->
                    IF Falsy(msg.message_id)
                    THEN skip("no_message_id", msg.message_id, {})
                    ELSE IF existing # {}
                    THEN skip("duplicate", msg.message_id, existing)
                    ELSE IF decode_raises(msg.body, msg.charset)
                    THEN \* LookupError raised while the body is decoded
                         /\ Raised("decode", "detail")
                         /\ UNCHANGED next_email_id
                    ELSE IF EmailsWithMessageId(SchedEmails,
                                                msg.message_id) # {}
                    THEN \* IntegrityError raised by the flush
                         /\ ExceptHandler("detail")
                         /\ UNCHANGED next_email_id
                    ELSE /\ next_email_id' = Consumed(next_email_id)
                         /\ sched' =
                              [ sched EXCEPT
                                  !.message_nums = rest,
                                  !.last = LastPass("created",
                                                    msg.message_id, {}),
                                  !.tx_emails = @ \cup
                                     { EmailRepository_create(
                                         email_id, msg.message_id,
                                         received_at_of(msg.date),
                                         sched.job_run.id) },
                                  !.email_record = email_id,
                                  !.parts = msg.parts,
                                  !.pc = IF msg.parts = <<>> THEN "loop"
                                         ELSE "parts",
                                  !.messages_saved =
                                     IF msg.parts = <<>> THEN @ + 1 ELSE @ ]
                         /\ UNCHANGED job_runs
    /\ UNCHANGED << emails, attachments, email_filters, blobs,
                    next_attachment_id, next_job_run_id, trig,
                    unlink_pending, failed_writes, searched, env_vars >>

\* What open(stored_path, "wb") followed by f.write(file_data) may do:
\* return, raise before the file exists, or raise after some bytes.
WriteOutcomes == { "written", "open_raises", "write_raises" }

\* How the handling of one attachment part may end: with one of the write
\* outcomes, or before the write with an exception outside the inner try
\* (get_payload, the flush of AttachmentRepository.create), which the
\* handler of the run catches.
PartOutcomes == WriteOutcomes \cup { "raises" }

\* The except branch of lines 192-195: the attachment row is deleted and
\* the deletion flushed; the file is left as the failed write left it.
write_failed(rows, attachment) == rows \ { attachment }

\* One attachment part, lines 159-195; after the last part of the message
\* messages_saved is incremented (line 197).
save_attachment ==
    /\ sched.pc = "parts"
    /\ sched.parts # <<>>
    /\ LET filename == Head(sched.parts)
           rest     == Tail(sched.parts)
           done(s)  == IF rest = <<>>
                       THEN [ s EXCEPT !.pc = "loop", !.parts = rest,
                                       !.email_record = 0,
                                       !.messages_saved = @ + 1 ]
                       ELSE [ s EXCEPT !.parts = rest ]
           id       == NewId(attachments \cup sched.tx_attachments,
                             next_attachment_id)
           name     == stored_name(sched.email_record, id, filename)
           pending  == AttachmentRepository_create(
                          id, sched.email_record, filename, PENDING)
           flushed  == sched.tx_attachments \cup { pending }
       IN  IF Falsy(filename)
           THEN /\ sched' = done(sched)
                /\ UNCHANGED << blobs, next_attachment_id, failed_writes,
                                job_runs >>
           ELSE \E outcome \in PartOutcomes :
                  IF outcome = "raises"
                  THEN /\ ExceptHandler("detail")
                       /\ UNCHANGED << blobs, next_attachment_id,
                                       failed_writes >>
                  ELSE
                /\ next_attachment_id' = Consumed(next_attachment_id)
                /\ UNCHANGED job_runs
                /\ CASE outcome = "written" ->
                            /\ blobs' = WriteBlob(blobs, name, "full",
                                                  sched.job_run.id)
                            /\ sched' = done(
                                 [ sched EXCEPT !.tx_attachments =
                                     (flushed \ { pending }) \cup
                                     { [ pending EXCEPT
                                           !.filename_stored = name ] } ])
                            /\ UNCHANGED failed_writes
                       [] outcome = "write_raises" ->
                            /\ blobs' = WriteBlob(blobs, name, "partial",
                                                  sched.job_run.id)
                            /\ sched' = done(
                                 [ sched EXCEPT !.tx_attachments =
                                     write_failed(flushed, pending) ])
                            /\ failed_writes' = failed_writes \cup
                                 { [ name |-> name,
                                     run |-> sched.job_run.id ] }
                       [] OTHER ->
                            /\ sched' = done(
                                 [ sched EXCEPT !.tx_attachments =
                                     write_failed(flushed, pending) ])
                            /\ failed_writes' = failed_writes \cup
                                 { [ name |-> name,
                                     run |-> sched.job_run.id ] }
                            /\ UNCHANGED blobs
    /\ UNCHANGED << emails, attachments, email_filters, next_email_id,
                    next_job_run_id, trig, unlink_pending, searched,
                    env_vars >>

\* ------------------------------------- one attachment part, step by step
\* The statements save_attachment takes at once, one statement a step, for
\* what holds between them.  The row being written is the one row of the
\* session that carries the placeholder.
PendingRows == { a \in sched.tx_attachments : a.filename_stored = PENDING }

\* The end of the handling of one part: the next part, or line 197 after
\* the last.
part_done(s) ==
    IF Tail(s.parts) = <<>>
    THEN [ s EXCEPT !.pc = "loop", !.parts = <<>>, !.email_record = 0,
                    !.messages_saved = @ + 1 ]
    ELSE [ s EXCEPT !.pc = "parts", !.parts = Tail(@) ]

\* Lines 159-184: a part without a file name is passed over; for any other
\* AttachmentRepository.create flushes the row with the placeholder name,
\* unless a statement before the inner try raises.
create_pending ==
    /\ sched.pc = "parts"
    /\ sched.parts # <<>>
    /\ LET filename == Head(sched.parts)
           id       == NewId(attachments \cup sched.tx_attachments,
                             next_attachment_id)
       IN  IF Falsy(filename)
           THEN /\ sched' = part_done(sched)
                /\ UNCHANGED << next_attachment_id, job_runs >>
           ELSE \/ /\ ExceptHandler("detail")
                   /\ UNCHANGED next_attachment_id
                \/ /\ next_attachment_id' = Consumed(next_attachment_id)
                   /\ sched' = [ sched EXCEPT
                                   !.pc = "write",
                                   !.tx_attachments = @ \cup
                                      { AttachmentRepository_create(
                                          id, sched.email_record, filename,
                                          PENDING) } ]
                   /\ UNCHANGED job_runs
    /\ UNCHANGED << emails, attachments, email_filters, blobs,
                    next_email_id, next_job_run_id, trig, unlink_pending,
                    failed_writes, searched, env_vars >>

\* Lines 186-188 and, when they raise, the except branch of lines 192-195:
\* the file is written under the final name while the row still carries
\* the placeholder.
write_file ==
    /\ sched.pc = "write"
    /\ \E pending \in PendingRows, outcome \in WriteOutcomes :
         LET name == stored_name(sched.email_record, pending.id,
                                 Head(sched.parts))
             failed == part_done(
                          [ sched EXCEPT !.tx_attachments =
                              write_failed(@, pending) ])
         IN  CASE outcome = "written" ->
                    /\ blobs' = WriteBlob(blobs, name, "full",
                                          sched.job_run.id)
                    /\ sched' = [ sched EXCEPT !.pc = "rename" ]
                    /\ UNCHANGED failed_writes
               [] outcome = "write_raises" ->
                    /\ blobs' = WriteBlob(blobs, name, "partial",
                                          sched.job_run.id)
                    /\ sched' = failed
                    /\ failed_writes' = failed_writes \cup
                         { [ name |-> name, run |-> sched.job_run.id ] }
               [] OTHER ->
                    /\ sched' = failed
                    /\ failed_writes' = failed_writes \cup
                         { [ name |-> name, run |-> sched.job_run.id ] }
                    /\ UNCHANGED blobs
    /\ UNCHANGED << emails, attachments, job_runs, email_filters,
                    next_email_id, next_attachment_id, next_job_run_id,
                    trig, unlink_pending, searched, env_vars >>

\* Lines 190-191: the row takes the final name.
set_filename_stored ==
    /\ sched.pc = "rename"
    /\ \E pending \in PendingRows :
         sched' = part_done(
            [ sched EXCEPT !.tx_attachments =
                (@ \ { pending }) \cup
                { [ pending EXCEPT !.filename_stored =
                      stored_name(sched.email_record, pending.id,
                                  Head(sched.parts)) ] } ])
    /\ UNCHANGED << emails, attachments, job_runs, email_filters, blobs,
                    next_email_id, next_attachment_id, next_job_run_id,
                    trig, unlink_pending, failed_writes, searched,
                    env_vars >>

\* Lines 199-207 once the work list is empty: finish as success and commit.
\* When the commit raises, the handler of lines 209-220 runs.
finish_success ==
    /\ sched.pc = "loop"
    /\ sched.message_nums = 0
    /\ \/ FinishAndCommit(sched.messages_fetched, sched.messages_saved,
                          "success", None)
       \/ ExceptHandler("detail")
    /\ UNCHANGED << email_filters, blobs, next_email_id, next_attachment_id,
                    next_job_run_id, trig, unlink_pending, failed_writes,
                    searched, env_vars >>

\* The finally of lines 221-226 and of scheduler.py:24-25: the IMAP session
\* is closed and logged out and the database session closed.  An exception
\* of imap.close() is swallowed (lines 222-225); imap.logout() (line 226)
\* stands outside that try, and when it raises (the connection is gone)
\* the exception leaves fetch_and_store_emails: of the run only the JobRun
\* object of the session is left.
release ==
    /\ sched.pc = "release"
    /\ \E logged_out \in BOOLEAN :
         sched' = IF logged_out THEN SchedIdle
                  ELSE [ SchedIdle EXCEPT !.pc = "escaped",
                                          !.job_run = sched.job_run ]
    /\ UNCHANGED << store_vars, trig, unlink_pending, failed_writes,
                    searched, env_vars >>

\* scheduler._run_email_job, lines 22-25: an exception that left
\* fetch_and_store_emails is logged and the database session closed.
log_job_exception ==
    /\ sched.pc = "escaped"
    /\ sched' = SchedIdle
    /\ UNCHANGED << store_vars, trig, unlink_pending, failed_writes,
                    searched, env_vars >>


\* ------------------------------------------------- the on-demand trigger
\* main.trigger_job -> run_email_check_job, lines 56-57: a request thread
\* creates the JobRun row and commits it before anything else.  `trig`
\* holds the rows of the requests in flight, one per thread.  A request
\* that finds the database locked waits, and fails without a trace when
\* the wait times out.
trigger_job ==
    /\ next_job_run_id <= MaxRuns
    /\ ~ WriteLocked
    /\ LET job_run == JobRunRepository_create(
                          NewId(job_runs, next_job_run_id))
       IN  /\ job_runs' = job_runs \cup { job_run }
           /\ trig' = trig \cup { job_run }
    /\ next_job_run_id' = next_job_run_id + 1
    /\ UNCHANGED << emails, attachments, email_filters, blobs,
                    next_email_id, next_attachment_id, sched,
                    unlink_pending, failed_writes, searched, env_vars >>

\* run_email_check_job, lines 64-129.  EmailClient() (line 66) reads
\* settings.email_host, a field class Settings (config.py:8-35) does not
\* declare, so the constructor raises AttributeError on every call: the
\* handler of lines 111-115 rolls back (nothing was written), and the
\* finally of lines 117-127 finishes the row with the counters still 0 and
\* commits.  Lines 67-110 are never reached.  When that commit finds the
\* database locked until its wait times out, it raises and the row stays
\* as it was committed: running.
run_email_check_job(job_run) ==
    /\ job_run \in trig
    /\ job_runs' =
         IF WriteLocked
         THEN job_runs
         ELSE (job_runs \ { job_run }) \cup
                 { JobRunRepository_finish(job_run, 0, 0, "error",
                                           "detail") }
    /\ trig' = trig \ { job_run }
    /\ UNCHANGED << emails, attachments, email_filters, blobs,
                    next_email_id, next_attachment_id, next_job_run_id,
                    sched, unlink_pending, failed_writes, searched,
                    env_vars >>

\* ------------------------------------------------------ the HTTP handlers
\* A handler that writes is taken when its commit goes through: while the
\* database is locked it waits, and answers 500 with nothing changed when
\* the wait times out.
\* main.delete_email: soft delete sets the flag, hard delete removes the
\* row and, by the cascade of models.py:29/36, its attachment rows; the
\* files stay.
delete_email(email, hard_delete) ==
    /\ email \in emails
    /\ ~ WriteLocked
    /\ IF hard_delete
       THEN /\ emails' = emails \ { email }
            /\ attachments' =
                 { a \in attachments : a.email_id # email.id }
       ELSE /\ emails' = (emails \ { email }) \cup
                 { [ email EXCEPT !.is_deleted = TRUE ] }
            /\ UNCHANGED attachments
    /\ UNCHANGED << job_runs, email_filters, blobs, next_email_id,
                    next_attachment_id, next_job_run_id, sched, trig,
                    unlink_pending, failed_writes, searched, env_vars >>

\* Mutant of AttachmentRepository_delete: the row is left in the table.
AttachmentRepository_delete_noop(rows, attachment) == rows

\* AttachmentRepository.delete, repositories.py:100-102.
AttachmentRepository_delete(rows, attachment) == rows \ { attachment }

\* main.delete_attachment, lines 167-174: the row is deleted and the
\* deletion committed; the path was computed from the row before.
delete_attachment(attachment) ==
    /\ attachment \in attachments
    /\ ~ WriteLocked
    /\ attachments' = AttachmentRepository_delete(attachments, attachment)
    /\ unlink_pending' = unlink_pending \cup { attachment.filename_stored }
    /\ UNCHANGED << emails, job_runs, email_filters, blobs, next_email_id,
                    next_attachment_id, next_job_run_id, sched, trig,
                    failed_writes, searched, env_vars >>

\* main.delete_attachment, lines 177-184: the file is removed when it
\* exists; an exception of os.remove is swallowed.
delete_attachment_file(name) ==
    /\ name \in unlink_pending
    /\ unlink_pending' = unlink_pending \ { name }
    /\ \E removed \in BOOLEAN :
         blobs' = IF removed THEN RemoveBlob(blobs, name) ELSE blobs
    /\ UNCHANGED << emails, attachments, job_runs, email_filters,
                    next_email_id, next_attachment_id, next_job_run_id,
                    sched, trig, failed_writes, searched, env_vars >>


\* ------------------------------------------------------------ the metrics
\* func.coalesce(func.sum(column), 0) over the values of a column.
RECURSIVE coalesce_sum(_)
coalesce_sum(values) ==
    IF values = <<>> THEN 0 ELSE Head(values) + coalesce_sum(Tail(values))

\* JobRunRepository.get_last: ORDER BY id DESC LIMIT 1; NoJobRun stands
\* for None, the result on an empty table.
get_last(rows) ==
    IF rows = {} THEN NoJobRun
    ELSE CHOOSE j \in rows : \A k \in rows : k.id <= j.id

\* services.get_job_metrics over JobRunRepository.get_aggregated_metrics,
\* read by a session of its own: it sees the committed rows.
get_job_metrics ==
    LET rows == RowList(job_runs)
        last == get_last(job_runs)
    IN  [ last_status |-> IF job_runs = {} THEN None ELSE last.status,
          last_error  |-> IF job_runs = {} THEN None
                          ELSE last.error_message,
          total_messages_fetched |->
              coalesce_sum([ i \in 1 .. Len(rows) |->
                               rows[i].messages_fetched ]),
          total_messages_saved |->
              coalesce_sum([ i \in 1 .. Len(rows) |->
                               rows[i].messages_saved ]) ]

\* ------------------------------------------------------ the filter engine
\* Text is a sequence of characters; NoneText is Python's None.
NoneText == << None >>

FalsyText(s) == s = NoneText \/ s = <<>>

\* str.lower() on the characters in use.
LowerChar(c) ==
    CASE c = "A" -> "a"
      [] c = "X" -> "x"
      [] c = "Y" -> "y"
      [] OTHER -> c

lower(s) == [ i \in 1 .. Len(s) |-> LowerChar(s[i]) ]

\* Python's `needle in hay` on str.
Contains(hay, needle) ==
    \E i \in 0 .. Len(hay) - Len(needle) :
        \A k \in 1 .. Len(needle) : hay[i + k] = needle[k]

\* `x or ""`.
OrEmpty(s) == IF s = NoneText THEN <<>> ELSE s

\* One of the three conditions of lines 35-40.
condition(configured, field) ==
    Contains(lower(OrEmpty(field)), lower(configured))

\* Mutant of all: any(conds).
any_cond(conds) == \E i \in 1 .. Len(conds) : conds[i]

\* all(conds) of line 47.
all(conds) == \A i \in 1 .. Len(conds) : conds[i]

\* The list conds of lines 34-40: one entry per configured condition.
conds_of(email_data, f) ==
    (IF FalsyText(f.from_address) THEN <<>>
     ELSE << condition(f.from_address, email_data.sender) >>)
    \o (IF FalsyText(f.subject_contains) THEN <<>>
        ELSE << condition(f.subject_contains, email_data.subject) >>)
    \o (IF FalsyText(f.body_contains) THEN <<>>
        ELSE << condition(f.body_contains, email_data.body) >>)

\* The loop of lines 31-50 from the i-th filter on.
RECURSIVE filters_loop(_, _, _)
filters_loop(email_data, filters, i) ==
    IF i > Len(filters) THEN FALSE
    ELSE LET f == filters[i]
         IN  IF ~ f.enabled
             THEN filters_loop(email_data, filters, i + 1)
             ELSE IF FalsyText(f.from_address)
                     /\ FalsyText(f.subject_contains)
                     /\ FalsyText(f.body_contains)
             THEN filters_loop(email_data, filters, i + 1)
             ELSE IF all(conds_of(email_data, f)) THEN TRUE
             ELSE filters_loop(email_data, filters, i + 1)

\* Mutant of apply_filters_to_email: without the early return of line 27.
filters_loop_only(email_data, filters) ==
    filters_loop(email_data, filters, 1)

\* services.apply_filters_to_email.
apply_filters_to_email(email_data, filters) ==
    IF filters = <<>> THEN TRUE
    ELSE filters_loop(email_data, filters, 1)

\* Rules in a list handed to the filter engine.
MaxFilters == 2

FilterRule(name, enabled, from_address, subject_contains, body_contains) ==
    [ name |-> name, enabled |-> enabled, from_address |-> from_address,
      subject_contains |-> subject_contains,
      body_contains |-> body_contains ]

\* The rules of the harness: R1 and R2 of the testable property, an
\* upper-case condition, a disabled rule, and rules with no condition
\* (all None, and an empty string).
Rules ==
    { FilterRule("R1", TRUE,  <<"a">>, NoneText, NoneText),
      FilterRule("R2", TRUE,  NoneText, <<"x">>, <<"y">>),
      FilterRule("R3", TRUE,  NoneText, NoneText, <<"Y">>),
      FilterRule("R4", FALSE, <<"a">>, NoneText, NoneText),
      FilterRule("R5", TRUE,  NoneText, NoneText, NoneText),
      FilterRule("R6", TRUE,  <<>>, NoneText, NoneText) }

\* The candidates of the harness: each field absent, matching (in another
\* case, inside the text) or not matching.
Candidates ==
    [ sender  : { NoneText, <<"b", "A">>, <<"b">> },
      subject : { NoneText, <<"X">>, <<"b">> },
      body    : { NoneText, <<"b", "y">>, <<"x">> } ]

RuleLists == SeqsUpTo(Rules, MaxFilters)

\* The harness applies the engine once to the inputs Init drew.
apply_filters ==
    /\ f_result = "none"
    /\ f_result' = IF apply_filters_to_email(f_email, f_filters)
                   THEN "accept" ELSE "reject"
    /\ UNCHANGED << store_vars, sched, trig, unlink_pending, failed_writes,
                    searched, engine, f_email, f_filters,
                    coordinator_vars >>


\* The payloads POST /filters is called with.
FilterPayloads ==
    { FilterRule("R1", en, <<"a">>, NoneText, NoneText) : en \in BOOLEAN }

\* main.create_filter: the row is inserted and committed; the unique
\* constraint on email_filters.name rejects a second row of the same name.
create_filter(payload) ==
    /\ \A f \in email_filters : f.name # payload.name
    /\ ~ WriteLocked
    /\ email_filters' = email_filters \cup { payload }
    /\ UNCHANGED << emails, attachments, job_runs, blobs, next_email_id,
                    next_attachment_id, next_job_run_id, sched, trig,
                    unlink_pending, failed_writes, searched, env_vars >>

\* main.update_filter with only `enabled` given.
update_filter(filt, enabled) ==
    /\ filt \in email_filters
    /\ ~ WriteLocked
    /\ filt.enabled # enabled
    /\ email_filters' = (email_filters \ { filt }) \cup
                           { [ filt EXCEPT !.enabled = enabled ] }
    /\ UNCHANGED << emails, attachments, job_runs, blobs, next_email_id,
                    next_attachment_id, next_job_run_id, sched, trig,
                    unlink_pending, failed_writes, searched, env_vars >>

\* main.delete_filter.
delete_filter(filt) ==
    /\ filt \in email_filters
    /\ ~ WriteLocked
    /\ email_filters' = email_filters \ { filt }
    /\ UNCHANGED << emails, attachments, job_runs, blobs, next_email_id,
                    next_attachment_id, next_job_run_id, sched, trig,
                    unlink_pending, failed_writes, searched, env_vars >>

\* EmailFilterRepository.get_all(db, enabled_only=True).
EnabledFilters == { f \in email_filters : f.enabled }

\* The dict of a candidate the filter engine is called with
\* (services.py:81, email_client.py:46-49): sender, subject and body.
candidate(msg) ==
    [ sender |-> msg.sender, subject |-> msg.subject, body |-> msg.body ]

\* ----------------------------------------------------------- specifications
\* The service after start-up: empty tables, empty attachments directory,
\* the periodic job scheduled and waiting for its first firing, on either
\* kind of engine.
Init ==
    /\ emails = {}
    /\ attachments = {}
    /\ job_runs = {}
    /\ email_filters = {}
    /\ blobs = NoBlobs
    /\ next_email_id = 1
    /\ next_attachment_id = 1
    /\ next_job_run_id = 1
    /\ sched = SchedIdle
    /\ trig = {}
    /\ unlink_pending = {}
    /\ failed_writes = {}
    /\ searched = 0
    /\ engine \in Engines
    /\ f_email = [ sender |-> NoneText, subject |-> NoneText,
                   body |-> NoneText ]
    /\ f_filters = <<>>
    /\ f_result = "none"
    /\ _scheduler = 1
    /\ schedulers = { AsyncIOScheduler(1) }
    /\ lifecycle = NoCalls

Next ==
    \/ run_email_job
    \/ open_imap_connection
    \/ imap_select
    \/ imap_search
    \/ fetch_message
    \/ save_attachment
    \/ finish_success
    \/ release
    \/ log_job_exception
    \/ trigger_job
    \/ \E j \in trig : run_email_check_job(j)
    \/ \E e \in emails, hard_delete \in BOOLEAN : delete_email(e, hard_delete)
    \/ \E a \in attachments : delete_attachment(a)
    \/ \E n \in unlink_pending : delete_attachment_file(n)

Spec == Init /\ [][Next]_vars

\* The service with the FilterRule handlers of main.py as well.  No action
\* of Next reads email_filters, so Spec is this specification with the
\* table left empty.
RulesNext ==
    \/ Next
    \/ \E p \in FilterPayloads : create_filter(p)
    \/ \E f \in email_filters, en \in BOOLEAN : update_filter(f, en)
    \/ \E f \in email_filters : delete_filter(f)

RulesSpec == Init /\ [][RulesNext]_vars

\* The filter engine on its own: Init draws a candidate and a rule list,
\* the one action applies apply_filters_to_email to them.
FilterInit ==
    /\ emails = {}
    /\ attachments = {}
    /\ job_runs = {}
    /\ email_filters = {}
    /\ blobs = NoBlobs
    /\ next_email_id = 1
    /\ next_attachment_id = 1
    /\ next_job_run_id = 1
    /\ sched = SchedIdle
    /\ trig = {}
    /\ unlink_pending = {}
    /\ failed_writes = {}
    /\ searched = 0
    /\ engine = "server"
    /\ f_email \in Candidates
    /\ f_filters \in RuleLists
    /\ f_result = "none"
    /\ _scheduler = 1
    /\ schedulers = { AsyncIOScheduler(1) }
    /\ lifecycle = NoCalls

FilterNext == apply_filters

\* The coordinator from the import of scheduler.py on: no scheduler yet,
\* then any calls of start_scheduler and shutdown_scheduler, with the
\* periodic job firing while a running scheduler holds it.
LifecycleInit ==
    /\ emails = {}
    /\ attachments = {}
    /\ job_runs = {}
    /\ email_filters = {}
    /\ blobs = NoBlobs
    /\ next_email_id = 1
    /\ next_attachment_id = 1
    /\ next_job_run_id = 1
    /\ sched = SchedIdle
    /\ trig = {}
    /\ unlink_pending = {}
    /\ failed_writes = {}
    /\ searched = 0
    /\ engine \in Engines
    /\ f_email = [ sender |-> NoneText, subject |-> NoneText,
                   body |-> NoneText ]
    /\ f_filters = <<>>
    /\ f_result = "none"
    /\ _scheduler = NoScheduler
    /\ schedulers = {}
    /\ lifecycle = NoCalls

LifecycleNext ==
    \/ start_scheduler
    \/ shutdown_scheduler
    \/ run_email_job
    \/ open_imap_connection
    \/ imap_select
    \/ imap_search
    \/ fetch_message
    \/ save_attachment
    \/ finish_success
    \/ release
    \/ log_job_exception

LifecycleSpec == LifecycleInit /\ [][LifecycleNext]_vars

\* The scheduled run with the handling of an attachment part taken one
\* statement at a time.
WriterNext ==
    \/ run_email_job
    \/ open_imap_connection
    \/ imap_select
    \/ imap_search
    \/ fetch_message
    \/ create_pending
    \/ write_file
    \/ set_filename_stored
    \/ finish_success
    \/ release
    \/ log_job_exception

WriterSpec == Init /\ [][WriterNext]_vars

\* The scheduled run with open_imap_connection taken one statement at a
\* time.
ConnectNext ==
    \/ run_email_job
    \/ imap_connect
    \/ imap_authenticate
    \/ imap_select
    \/ imap_search
    \/ fetch_message
    \/ save_attachment
    \/ finish_success
    \/ release
    \/ log_job_exception

ConnectSpec == Init /\ [][ConnectNext]_vars

FilterSpec == FilterInit /\ [][FilterNext]_vars

\* =================================================================== claims
\* The runs in progress: the scheduled instance between its firing and the
\* end of its finally block, and every on-demand request in flight.
RunsExecuting ==
    (IF sched.pc = "idle" THEN 0 ELSE 1) + Cardinality(trig)

\* C1. Single-flight: in every reachable state at most one ingestion run is
\* executing; a trigger during a scheduled run, a firing during an
\* on-demand run and two overlapping triggers start no second run.
\* Refuted: trigger_job takes no lock and looks at no run in progress.
C1_SingleFlight == RunsExecuting <= 1

\* The run with identifier id has been finalized: its JobRun row is
\* committed with a final status.
Finalized(id) ==
    \E j \in job_runs : j.id = id /\ j.status \in { "success", "error" }

\* C2. Attachment atomicity: once a run in which the blob write of an
\* attachment failed is finalized, no committed Attachment row carries that
\* attachment's stored name and no file, partial or complete, exists at
\* that name.  Refuted: the except branch of the scheduled run deletes the
\* row and leaves the file the failed write created.
C2_AttachmentAtomicity ==
    \A w \in failed_writes :
        Finalized(w.run) =>
            /\ \A a \in attachments : a.filename_stored # w.name
            /\ w.name \notin DOMAIN blobs

\* C3. In every committed state of the record store, under any sequence of
\* runs, attachment deletions and message deletions, each Attachment row
\* carries a final stored name, not the placeholder, and the blob store
\* holds a fully written file under that name.  Refuted on SQLite: the
\* identifiers of a deleted message and attachment are handed out again,
\* the new attachment gets the stored name of the old one, and a
\* delete_attachment of the old one that has committed but not yet removed
\* its file removes the file of the new one.
C3_CommittedAttachmentHasBlob ==
    \A a \in attachments :
        /\ a.filename_stored # PENDING
        /\ a.filename_stored \in DOMAIN blobs
        /\ blobs[a.filename_stored].content = "full"

\* C4. No orphan blob: when a run is finalized, with status success or
\* error, every blob the run wrote is referenced by the stored name of a
\* committed Attachment row.  Stated on the finalizing step, before any
\* later deletion can act.  Refuted: the rollback of the except handler
\* drops the rows and removes no file.
C4_NoOrphanBlob ==
    [][ (sched.pc # "release" /\ sched'.pc = "release") =>
          \A n \in DOMAIN blobs' :
              blobs'[n].run = sched.job_run.id =>
                  \E a \in attachments' : a.filename_stored = n ]_vars

\* This step is a pass of the fetch loop of the scheduled run that fetched
\* a candidate and read the external identifier mid from it.
Observes(mid) ==
    /\ sched.pc = "loop"
    /\ sched.message_nums > 0
    /\ sched'.message_nums = sched.message_nums - 1
    /\ sched'.pc \in { "loop", "parts" }
    /\ sched'.last.why \in { "duplicate", "created" }
    /\ sched'.last.message_id = mid

\* This step finalizes the scheduled run.
Finalizes == sched.pc # "release" /\ sched'.pc = "release"

\* C5. Dedup idempotence: when a run observes a candidate whose external
\* identifier an earlier run has stored, the pass creates no Message row
\* and leaves messages_saved as it is, exactly one row with the identifier
\* exists afterwards, and the messages_saved a successful run commits is
\* the number of rows the run inserted.
C5_DedupIdempotence ==
    [][ /\ \A e \in emails :
              Observes(e.message_id) =>
                  /\ sched'.tx_emails = sched.tx_emails
                  /\ emails' = emails
                  /\ sched'.messages_saved = sched.messages_saved
                  /\ Cardinality({ x \in emails' \cup sched'.tx_emails :
                                     x.message_id = e.message_id }) = 1
        /\ Finalizes =>
              \A j \in job_runs' \ job_runs :
                  j.status = "success" =>
                      j.messages_saved =
                          Cardinality({ x \in emails' : x.run = j.id })
      ]_vars

\* C5 witness: a second run has fetched one message, found it stored by an
\* earlier run, and finished as success with messages_saved 0; one row
\* with the identifier exists.
C5_Witness ==
    /\ sched.pc = "release"
    /\ sched.last.why = "duplicate"
    /\ \E e \in sched.last.existing : e.run < sched.job_run.id
    /\ \E j \in job_runs :
          /\ j.id = sched.job_run.id
          /\ j.status = "success"
          /\ j.messages_fetched = 1
          /\ j.messages_saved = 0
    /\ Cardinality({ x \in emails :
                       x.message_id = sched.last.message_id }) = 1

\* C6. In every reachable state no two Message rows, committed or flushed
\* by a run in progress, soft-deleted or not, have the same external
\* identifier.
C6_MessageIdUnique ==
    \A e1, e2 \in emails \cup sched.tx_emails :
        e1.message_id = e2.message_id => e1.id = e2.id

\* C6 witness: the mailbox returned the same identifier twice within one
\* run; the second pass found the row the first pass had flushed.
C6_Witness ==
    /\ sched.last.why = "duplicate"
    /\ \E e \in sched.last.existing :
          e \in sched.tx_emails /\ e.run = sched.job_run.id

\* C7. A soft-deleted message is never re-ingested: a pass that observes a
\* candidate whose identifier a soft-deleted row carries creates no row,
\* leaves the stored rows (the flag included) and messages_saved as they
\* are; and no step clears the flag of a row.
C7_SoftDeletedNotReingested ==
    [][ /\ \A e \in emails :
              (e.is_deleted /\ Observes(e.message_id)) =>
                  /\ sched'.tx_emails = sched.tx_emails
                  /\ emails' = emails
                  /\ sched'.messages_saved = sched.messages_saved
        /\ \A e \in emails :
              e.is_deleted =>
                  (e \in emails' \/ \A x \in emails' : x.id # e.id)
      ]_vars

\* C7 witness: the dedup query of a pass returned a soft-deleted row, and
\* the row is still stored with its flag set.
C7_Witness ==
    /\ sched.last.why = "duplicate"
    /\ \E e \in sched.last.existing : e.is_deleted /\ e \in emails

\* A condition of a rule is configured when it is neither None nor empty.
Configured(c) == c # NoneText /\ c # <<>>

\* The case-insensitive substring test of a configured condition against a
\* candidate field, an absent field counting as the empty string.
HoldsOn(c, field) ==
    LET text == IF field = NoneText THEN <<>> ELSE field
    IN  \E i \in 0 .. Len(text) - Len(c) :
            \A k \in 1 .. Len(c) : LowerChar(text[i + k]) = LowerChar(c[k])

\* The rule is enabled, has a configured condition, and every condition it
\* has configured holds on the candidate.
RuleAccepts(email_data, f) ==
    /\ f.enabled
    /\ \/ Configured(f.from_address)
       \/ Configured(f.subject_contains)
       \/ Configured(f.body_contains)
    /\ Configured(f.from_address) => HoldsOn(f.from_address, email_data.sender)
    /\ Configured(f.subject_contains) =>
          HoldsOn(f.subject_contains, email_data.subject)
    /\ Configured(f.body_contains) =>
          HoldsOn(f.body_contains, email_data.body)

\* C8. Filter AND/OR semantics: for every candidate and every non-empty
\* rule list, apply_filters_to_email returns true iff some rule of the list
\* is enabled, has at least one configured condition, and all its
\* configured conditions hold.
C8_FilterAndOr ==
    (f_result # "none" /\ f_filters # <<>>) =>
        ( f_result = "accept" <=>
            \E i \in 1 .. Len(f_filters) : RuleAccepts(f_email, f_filters[i]) )

\* C8 witness: with R1 = {sender contains a} and R2 = {subject contains x,
\* body contains y}, a candidate matching the subject of R2 only has been
\* rejected.
C8_Witness ==
    /\ f_filters = << FilterRule("R1", TRUE, <<"a">>, NoneText, NoneText),
                      FilterRule("R2", TRUE, NoneText, <<"x">>, <<"y">>) >>
    /\ f_email = [ sender |-> <<"b">>, subject |-> <<"X">>,
                   body |-> <<"x">> ]
    /\ f_result = "reject"

\* C9. Empty-rule fail-open: apply_filters_to_email accepts every candidate
\* on the empty rule list; and while the record store holds no enabled
\* FilterRule, a pass that observes a candidate with a non-empty external
\* identifier that is not stored creates its Message row, the rows of a
\* run stay in its session until it is finalized, and a run finalized as
\* success commits them.
C9_EmptyRuleFailOpen ==
    [][ /\ \A c \in Candidates : apply_filters_to_email(c, <<>>)
        /\ \A msg \in Mailbox :
              ( /\ EnabledFilters = {}
                /\ Observes(msg.message_id)
                /\ msg.message_id # None /\ msg.message_id # ""
                /\ \A x \in emails \cup sched.tx_emails :
                      x.message_id # msg.message_id )
              => \E x \in sched'.tx_emails :
                     x.message_id = msg.message_id /\ ~ x.is_deleted
        /\ Finalizes \/ sched.tx_emails \subseteq sched'.tx_emails
        /\ Finalizes =>
              \A j \in job_runs' \ job_runs :
                  j.status = "success" => sched.tx_emails \subseteq emails'
      ]_vars

\* C9 witness: a run finished as success has stored the candidate of its
\* last pass while the only FilterRule of the record store is disabled.
C9_Witness ==
    /\ sched.pc = "release"
    /\ sched.last.why = "created"
    /\ email_filters # {}
    /\ EnabledFilters = {}
    /\ \E j \in job_runs : j.id = sched.job_run.id /\ j.status = "success"
    /\ \E e \in emails :
          /\ e.message_id = sched.last.message_id
          /\ e.run = sched.job_run.id

\* The rules of the harness with none of the three conditions configured.
InertRules ==
    { f \in Rules : ~ Configured(f.from_address)
                      /\ ~ Configured(f.subject_contains)
                      /\ ~ Configured(f.body_contains) }

\* The list q with x inserted as its i-th element.
InsertAt(q, i, x) ==
    SubSeq(q, 1, i - 1) \o << x >> \o SubSeq(q, i, Len(q))

\* C10. A rule with no configured condition contributes neither accept nor
\* reject: for every candidate and every rule list, the empty list
\* included, the list with such a rule added at any place has the result
\* of the list without it.  Refuted: the empty list accepts, the list of
\* one such rule rejects.
C10_InertRuleNeutral ==
    f_result # "none" =>
        \A r \in InertRules, i \in 1 .. Len(f_filters) + 1 :
            apply_filters_to_email(f_email, InsertAt(f_filters, i, r))
                <=> (f_result = "accept")

\* The rules of the harness whose enabled flag is false.
DisabledRules == { f \in Rules : ~ f.enabled }

\* The list q without its i-th element.
RemoveAt(q, i) == SubSeq(q, 1, i - 1) \o SubSeq(q, i + 1, Len(q))

\* C11. Disabled rules are never evaluated: for every candidate and every
\* rule list, the result of apply_filters_to_email does not depend on a
\* rule whose enabled flag is false; the list with a disabled rule added at
\* any place (to the empty list too) and the list with one of its disabled
\* rules removed have the result of the list itself.  Refuted: the empty
\* list accepts (line 29), the list of one disabled rule skips it in the
\* loop and rejects (lines 32-33, 50).
C11_DisabledRuleNeutral ==
    f_result # "none" =>
        /\ \A r \in DisabledRules, i \in 1 .. Len(f_filters) + 1 :
              apply_filters_to_email(f_email, InsertAt(f_filters, i, r))
                  <=> (f_result = "accept")
        /\ \A i \in 1 .. Len(f_filters) :
              ~ f_filters[i].enabled =>
                  ( apply_filters_to_email(f_email, RemoveAt(f_filters, i))
                      <=> (f_result = "accept") )

\* C12. Every run, scheduled or on demand, evaluates the filter engine
\* against the enabled FilterRules for each identifiable candidate that is
\* not a duplicate: no pass of a run creates a Message row for a candidate
\* the enabled rules of the record store reject when the pass handles it.
\* Refuted: the scheduled run reads no FilterRule and creates the row, which
\* its commit then persists.
C12_RunsApplyFilters ==
    [][ \A msg \in Mailbox :
          ( /\ ~ Falsy(msg.message_id)
            /\ Observes(msg.message_id)
            /\ sched'.last.why = "created" )
          => apply_filters_to_email(candidate(msg),
                                    RowList(EnabledFilters)) ]_vars

\* The committed JobRun rows of the invocation whose row got identifier id.
RunRecords(rows, id) == { j \in rows : j.id = id }

\* The invocation whose row got identifier id has left exactly one
\* committed RunRecord in `rows`, and that record is finalized.
OneFinalRecord(rows, id) ==
    /\ Cardinality(RunRecords(rows, id)) = 1
    /\ \A j \in RunRecords(rows, id) :
          /\ j.status \in { "success", "error" }
          /\ j.finished_at # None

\* C13. Every invocation of a run, scheduled or on demand, on every path,
\* the failure to acquire the mailbox session included, leaves exactly one
\* committed RunRecord, and when the invocation returns that record is
\* finalized: its status is success or error and its end timestamp is set.
\* Stated on the step in which the invocation returns.  Refuted: when
\* open_imap_connection raises in the scheduled run the flushed row is
\* discarded and no RunRecord is left.
C13_OneFinalRecordPerRun ==
    [][ /\ (sched.pc # "idle" /\ sched'.pc = "idle") =>
              OneFinalRecord(job_runs', sched.job_run.id)
        /\ \A t \in trig \ trig' : OneFinalRecord(job_runs', t.id)
      ]_vars

\* C14. In every run, scheduled or on demand, the RunRecord in state
\* running is committed before the mailbox session is acquired and before
\* any message is processed: while a run has started and is not finalized,
\* a committed RunRecord of that run with status running exists, so that a
\* process stopping there leaves it behind.  Refuted: the scheduled run only
\* flushes its row and commits nothing before its last statement.
C14_RunningRecordDurable ==
    /\ sched.pc \in { "open", "select", "search", "loop", "parts" } =>
          \E j \in RunRecords(job_runs, sched.job_run.id) :
              j.status = "running"
    /\ \A t \in trig :
          \E j \in RunRecords(job_runs, t.id) : j.status = "running"

\* C15. In the committed record store the status of a RunRecord changes
\* only from running to success or from running to error; a RunRecord
\* whose status is success or error is never modified again, so it is
\* finalized at most once and its counts never decrease; and no RunRecord
\* is ever deleted.
C15_RunRecordMonotone ==
    [][ \A j \in job_runs :
          /\ Cardinality(RunRecords(job_runs', j.id)) = 1
          /\ \A k \in RunRecords(job_runs', j.id) :
                \/ k = j
                \/ /\ j.status = "running"
                   /\ k.status \in { "success", "error" }
                   /\ k.messages_fetched >= j.messages_fetched
                   /\ k.messages_saved >= j.messages_saved
      ]_vars

\* C15 witness: while the scheduled run, started first, is still in
\* progress, a later on-demand run has returned and its RunRecord,
\* committed as running, is committed as error.
C15_Witness ==
    /\ sched.pc \in { "open", "select", "search", "loop", "parts" }
    /\ sched.job_run.id = 1
    /\ trig = {}
    /\ \E j \in job_runs :
          j.id = 2 /\ j.status = "error" /\ j.finished_at # None

\* The messages the RunRecords of `rows` count as saved and as fetched:
\* one element per RunRecord and counted message.
CountedSaved(rows) ==
    UNION { { << j.id, n >> : n \in 1 .. j.messages_saved } : j \in rows }

CountedFetched(rows) ==
    UNION { { << j.id, n >> : n \in 1 .. j.messages_fetched } : j \in rows }

\* The invocation whose row got identifier id has returned.
Returned(id) ==
    /\ \A t \in trig : t.id # id
    /\ sched.pc = "idle" \/ sched.job_run.id # id

\* C16. Metrics are a derived view: after any sequence of runs
\* get_job_metrics returns as total_messages_saved the sum of messages_saved
\* over all RunRecords and as total_messages_fetched the sum of
\* messages_fetched; last_status and last_error are those of the RunRecord
\* created last (identifiers are handed out in the order of creation); and
\* once the run of that record has returned, last_status is not running.
\* Refuted in its last part: an on-demand run whose final commit fails
\* returns and leaves its RunRecord as it was committed at its start.
C16_MetricsDerivedView ==
    LET m == get_job_metrics
    IN  /\ m.total_messages_saved = Cardinality(CountedSaved(job_runs))
        /\ m.total_messages_fetched = Cardinality(CountedFetched(job_runs))
        /\ \A j \in job_runs :
              (\A k \in job_runs : k.id <= j.id) =>
                  /\ m.last_status = j.status
                  /\ m.last_error = j.error_message
                  /\ Returned(j.id) => m.last_status # "running"

\* C17. For every finalized RunRecord, success or error, messages_saved is
\* the number of Message rows the run has committed: a message whose row
\* was rolled back is not counted.  Stated on the step that commits the
\* final status, before any deletion can act.  Refuted: the except handler
\* of the scheduled run rolls the rows back and then records the counter
\* as it stood.
C17_SavedCountsCommitted ==
    [][ \A j \in job_runs' \ job_runs :
          j.status \in { "success", "error" } =>
              j.messages_saved =
                  Cardinality({ x \in emails' : x.run = j.id }) ]_vars

\* The RunRecord of the invocation whose row got identifier id is committed
\* in `rows` as error, with the failure detail.
FinalizedAsError(rows, id) ==
    \E j \in RunRecords(rows, id) :
        j.status = "error" /\ j.error_message # None

\* C18. If acquiring the mailbox session fails (credential exchange,
\* connection or authentication), the run, scheduled or on demand, is
\* finalized with status error and the failure detail, no candidate is
\* processed, and no Message or Attachment is written.  Stated on the step
\* in which the acquisition fails.  Refuted: open_imap_connection is called
\* outside the try of the scheduled run, whose handler never sees the
\* exception.
C18_SessionFailureFinalized ==
    [][ /\ (sched.pc = "open" /\ sched'.pc \notin { "open", "select" }) =>
              /\ FinalizedAsError(job_runs', sched.job_run.id)
              /\ sched'.messages_fetched = 0
              /\ emails' = emails /\ attachments' = attachments
              /\ blobs' = blobs
        /\ \A t \in trig \ trig' :
              /\ FinalizedAsError(job_runs', t.id)
              /\ emails' = emails /\ attachments' = attachments
              /\ blobs' = blobs
      ]_vars

FetchFails ==
    /\ sched.pc = "loop"
    /\ sched.message_nums > 0
    /\ \/ sched'.pc = "release"
       \/ /\ sched'.message_nums = sched.message_nums - 1
          /\ sched'.last.why = "fetch_failed"

\* C20. If fetching one candidate from the transport fails, the run aborts:
\* no later candidate is processed, the RunRecord is finalized with status
\* error, and its counts are those reached at the moment of the failure.
\* Refuted: a fetch that answers with a status other than OK is logged and
\* skipped, and the run goes on to the next candidate.
C20_FetchFailureAborts ==
    [][ FetchFails =>
          /\ sched'.pc = "release"
          /\ FinalizedAsError(job_runs', sched.job_run.id)
          /\ \A j \in RunRecords(job_runs', sched.job_run.id) :
                /\ j.messages_fetched = sched.messages_fetched
                /\ j.messages_saved = sched.messages_saved
      ]_vars

\* This step is a pass of the fetch loop of the scheduled run in which
\* decoding the fetched message fails: the pass skips the message, or the
\* exception of the decoder ends the run.
DecodeFails ==
    /\ sched.pc = "loop"
    /\ sched.message_nums > 0
    /\ \/ /\ sched'.pc = "release"
          /\ sched'.ended.pc = "decode"
       \/ /\ sched'.message_nums = sched.message_nums - 1
          /\ sched'.last.why = "decode_failed"

\* C21. A decode failure on one malformed message skips only that message:
\* the remaining candidates of the run are still processed, the messages
\* the run has stored before stay stored, and the run is not finalized as
\* error because of it.  Refuted: the exception of the body decoder is
\* caught by the handler of the whole run, which rolls back every row of
\* the run and finalizes it as error.
C21_DecodeFailureSkips ==
    [][ DecodeFails =>
          /\ sched'.pc = "loop"
          /\ sched'.message_nums = sched.message_nums - 1
          /\ sched'.tx_emails = sched.tx_emails
          /\ sched'.messages_saved = sched.messages_saved
          /\ job_runs' = job_runs
      ]_vars

\* This step is the handling of an attachment part of the scheduled run in
\* which the write of the file fails.
WriterFails ==
    /\ sched.pc = "parts"
    /\ failed_writes' # failed_writes

\* C22. In every run a failure of the attachment writer (the write of the
\* file fails) stops the processing of all remaining candidates of the run,
\* and the run is finalized with status error.  Refuted: the scheduled run
\* catches the failure next to the write, deletes the attachment row and
\* goes on with the next part and the next candidate.
C22_WriterFailureAborts ==
    [][ WriterFails =>
          /\ sched'.pc = "release"
          /\ FinalizedAsError(job_runs', sched.job_run.id)
      ]_vars

\* This step ends the scheduled run with a persistence error: the flush of
\* an attachment row or the final commit raised.
PersistenceFails ==
    /\ sched.pc \in { "loop", "parts" }
    /\ sched'.pc = "release"
    /\ \/ sched'.ended.pc = "parts"
       \/ sched'.ended.pc = "loop" /\ sched'.ended.left = 0
    /\ \E j \in job_runs' \ job_runs : j.status = "error"

ObservesMissingId ==
    /\ sched.pc = "loop"
    /\ sched.message_nums > 0
    /\ sched'.message_nums = sched.message_nums - 1
    /\ sched'.pc \in { "loop", "parts" }
    /\ sched'.last.why \in { "no_message_id", "duplicate", "created" }
    /\ sched'.last.message_id \in { None, "" }

\* C24. Missing-identifier handling: a candidate whose external identifier
\* is absent or empty is counted in messages_fetched, creates no Message or
\* Attachment row, does not increment messages_saved and does not make the
\* run fail; no Message row, committed or flushed, has an absent or empty
\* identifier; and the messages_fetched a run commits is the number of
\* message numbers its search returned.
C24_MissingIdSkipped ==
    [][ /\ ObservesMissingId =>
              /\ sched'.pc = "loop"
              /\ sched'.tx_emails = sched.tx_emails
              /\ sched'.tx_attachments = sched.tx_attachments
              /\ sched'.messages_saved = sched.messages_saved
              /\ sched'.messages_fetched = sched.messages_fetched
              /\ sched.messages_fetched >= sched.message_nums
              /\ job_runs' = job_runs
              /\ emails' = emails /\ attachments' = attachments
        /\ \A x \in emails' \cup sched'.tx_emails :
              x.message_id \notin { None, "" }
        /\ Finalizes =>
              \A j \in job_runs' \ job_runs :
                  j.status = "success" =>
                      j.messages_fetched = sched.messages_fetched
      ]_vars

\* C24 witness: a run whose only candidate had an empty identifier has been
\* finalized as success with messages_fetched 1 and messages_saved 0, and
\* the store holds no Message row.
C24_Witness ==
    /\ sched.pc = "release"
    /\ sched.last.why = "no_message_id"
    /\ sched.last.message_id = ""
    /\ emails = {}
    /\ \E j \in RunRecords(job_runs, sched.job_run.id) :
          /\ j.status = "success"
          /\ j.messages_fetched = 1
          /\ j.messages_saved = 0

\* C29. On every path out of a run after the mailbox session has been
\* acquired the session is released before the run returns, and a failure
\* of the release neither changes the finalized RunRecord nor propagates an
\* exception to the caller of the run: no step takes the run from its body
\* straight to its return, and the step that leaves the finally block ends
\* the run with the RunRecords as they were and no exception in flight.
\* Refuted: imap.logout() is not guarded, its exception leaves
\* fetch_and_store_emails and reaches the caller.
C29_ReleaseBestEffort ==
    [][ /\ sched.pc \in { "select", "search", "loop", "parts" } =>
              sched'.pc # "idle"
        /\ (sched.pc = "release" /\ sched'.pc # "release") =>
              /\ sched'.pc = "idle"
              /\ job_runs' = job_runs
      ]_vars

\* Some run ended in failure before the scheduled run in progress began:
\* a committed RunRecord of another run has status error.  On SQLite no
\* other session commits between the flush that begins the scheduled run
\* and its return from open_imap_connection, so the record was there when
\* the run began.
PriorFailure ==
    /\ engine = "sqlite"
    /\ \E j \in job_runs : j.status = "error" /\ j.id # sched.job_run.id

\* C25. A failing run is not fatal: once a run has ended in failure, the
\* next scheduled run terminates leaving the coordinator idle with nothing
\* of the run left in it, and is finalized with a RunRecord of its own.
\* Stated on the step in which the later run returns.  Refuted: the later
\* run whose open_imap_connection raises returns with no RunRecord at all.
C25_FailureNotFatal ==
    [][ ( /\ PriorFailure
          /\ sched.pc # "idle"
          /\ sched'.pc = "idle" )
        => /\ sched' = SchedIdle
           /\ OneFinalRecord(job_runs', sched.job_run.id)
      ]_vars

\* C26. The coordinator lifecycle is idempotent: a call of start_scheduler
\* when a scheduler is started and a call of shutdown_scheduler when none
\* is started change neither the global nor the running schedulers; and
\* after every call at most one scheduler is running, the one the global
\* refers to, and it holds exactly one job, the periodic email job.
C26_LifecycleIdempotent ==
    [][ lifecycle' # lifecycle =>
          /\ ( \/ lifecycle'.last = "start" /\ _scheduler # NoScheduler
               \/ lifecycle'.last = "shutdown" /\ _scheduler = NoScheduler )
             => UNCHANGED << _scheduler, schedulers >>
          /\ Cardinality(schedulers') <= 1
          /\ \A s \in schedulers' :
                /\ s.id = _scheduler'
                /\ s.jobs = << "email_fetch_job" >>
          /\ lifecycle'.last = "start" => schedulers' # {}
          /\ lifecycle'.last = "shutdown" => schedulers' = {}
      ]_vars

\* A second start_scheduler in a row has been made, and the periodic job
\* has run under the scheduler of the first.
C26_Witness ==
    /\ lifecycle.calls >= 2
    /\ lifecycle.last = "start"
    /\ _scheduler = 1
    /\ Cardinality(schedulers) = 1
    /\ job_runs # {}

\* C27. delete_attachment removes the metadata record and commits the
\* removal before it attempts to delete the blob: the step that commits
\* removes the row and touches no file, a file disappears only in the
\* later step of a handler whose removal is committed, and that step ends
\* the handler whether or not the file was removed, leaving the attachment
\* rows as they are.
C27_MetadataFirstBestEffortBlob ==
    [][ /\ \A n \in unlink_pending' \ unlink_pending :
              /\ \E a \in attachments \ attachments' :
                    a.filename_stored = n
              /\ \A a \in attachments' : a.filename_stored # n
              /\ blobs' = blobs
        /\ \A n \in DOMAIN blobs \ DOMAIN blobs' :
              n \in unlink_pending \ unlink_pending'
        /\ \A n \in unlink_pending \ unlink_pending' :
              /\ attachments' = attachments
              /\ blobs' \in { blobs, RemoveBlob(blobs, n) }
              /\ unlink_pending' = unlink_pending \ { n }
      ]_vars

\* A delete_attachment handler has ended without removing the file: no
\* handler is between its commit and its removal, and the complete file of
\* an attachment whose Message row is still there has no attachment row.
C27_Witness ==
    /\ unlink_pending = {}
    /\ sched.pc = "idle"
    /\ \E n \in DOMAIN blobs :
          /\ blobs[n].content = "full"
          /\ \E e \in emails : e.id = n.email_id /\ e.run = blobs[n].run
          /\ \A a \in attachments : a.filename_stored # n

\* The attachments of a message: its parts that carry a file name.
NamedParts(msg) == { i \in DOMAIN msg.parts : ~ Falsy(msg.parts[i]) }

\* C28. A reader of the record store sees a message either not at all or
\* with all its writes committed: the commit of a run makes visible no
\* Attachment row with the placeholder name or without its complete file,
\* and every Message row it makes visible comes with one Attachment row
\* for each attachment of the message.  Refuted: when the write of a file
\* fails the row of the attachment is dropped and the run goes on, so the
\* commit publishes the Message without that attachment.
C28_ReadersSeeWholeMessages ==
    [][ Finalizes =>
          /\ \A a \in attachments' \ attachments :
                /\ a.filename_stored # PENDING
                /\ a.filename_stored \in DOMAIN blobs'
                /\ blobs'[a.filename_stored].content = "full"
          /\ \A e \in emails' \ emails :
                \A msg \in Mailbox :
                   msg.message_id = e.message_id =>
                      Cardinality({ a \in attachments' : a.email_id = e.id })
                         = Cardinality(NamedParts(msg))
      ]_vars

\* The Attachment rows of the record store and of the session of the
\* scheduled run, as the run itself sees them.
SchedAttachments == attachments \cup sched.tx_attachments

\* C30. Stored attachment names are globally unique: in every state, the
\* flushed rows of a run included, no two Attachment rows have the same
\* stored name, and an attachment never receives a final name under which
\* the complete file of an earlier attachment was stored.  Refuted on
\* SQLite: after the rows of a message are deleted their identifiers are
\* given out again, and the name built from them with the same file name
\* is the name of the earlier attachment, whose file is still there.
C30_StoredNamesUnique ==
    [][ /\ \A a, b \in SchedAttachments' :
              a.filename_stored = b.filename_stored => a = b
        /\ \A a \in sched'.tx_attachments \ sched.tx_attachments :
              a.filename_stored # PENDING =>
                 ~ ( /\ a.filename_stored \in DOMAIN blobs
                     /\ blobs[a.filename_stored].content = "full" )
      ]_vars

\* The names of the files a step writes.
Written ==
    { n \in DOMAIN blobs' : n \notin DOMAIN blobs \/ blobs'[n] # blobs[n] }

\* C31. Two-phase write order: the row of an attachment is inserted with
\* the placeholder name, then takes its final name, then the file is
\* written under that name: whenever a file is written, a row of the
\* session carries its name already and none carries the placeholder.
\* Refuted: the scheduled run writes the file first and sets the final
\* name afterwards.
C31_WriteOrder ==
    [][ \A n \in Written :
          /\ \E a \in sched.tx_attachments : a.filename_stored = n
          /\ PendingRows = {}
      ]_vars

\* The messages whose Date header is absent or cannot be parsed.
Undated ==
    { msg \in Mailbox : Falsy(msg.date) \/ parsedate_raises(msg.date) }

\* C32. A candidate whose Date header is absent or unparseable is stored
\* with received_at absent: every Message row of such a candidate, in the
\* session of the run or committed, has received_at None.  Refuted: the
\* scheduled run stores the time of the run instead.
C32_UndatedStoredWithoutDate ==
    \A e \in SchedEmails :
       \A msg \in Undated :
          msg.message_id = e.message_id => e.received_at = None

\* C33. In every finalized RunRecord the number of messages saved is at
\* least 0 and at most the number of messages fetched, whichever pipeline
\* wrote it and whether it ended as success or as error.
C33_SavedAtMostFetched ==
    \A j \in job_runs :
       j.status \in { "success", "error" } =>
          /\ 0 <= j.messages_saved
          /\ j.messages_saved <= j.messages_fetched

\* Finalized RunRecords of both pipelines are there, and one of the
\* scheduled run counts fewer messages saved than fetched, but not none.
C33_Witness ==
    /\ \E j \in job_runs :
          /\ j.status \in { "success", "error" }
          /\ 0 < j.messages_saved
          /\ j.messages_saved < j.messages_fetched
    /\ \E j \in job_runs :
          /\ j.status = "error"
          /\ j.messages_fetched = 0

\* The scheduled run holds a mailbox connection that has not been logged
\* out: from the return of IMAP4_SSL to the logout of the finally block.
ConnectionOpen(s) ==
    s.pc \in { "authenticate", "select", "search", "loop", "parts",
               "release" }

\* C34. No mailbox connection is leaked: a run that holds a connection
\* gives it up only in the step that logs it out, the failure of the
\* XOAUTH2 authentication after the connection was opened included.
\* Refuted: when authenticate fails, open_imap_connection raises and the
\* run returns with the connection open and no reference to it.
C34_NoConnectionLeak ==
    [][ ( ConnectionOpen(sched) /\ ~ ConnectionOpen(sched') )
        => sched.pc = "release"
      ]_vars

\* The RunRecords a scheduled run leaves when the mailbox holds no
\* candidate and nothing fails: only the scheduled run finishes a record
\* as success.
EmptyMailboxRecords ==
    { j \in job_runs : j.status = "success" /\ j.messages_fetched = 0 }

\* C35. The scheduled and the on-demand pipeline are equivalent; in
\* particular, where a scheduled run over a mailbox without candidates has
\* left its RunRecord, an on-demand run, which stores nothing either,
\* returns with a RunRecord of the same status and counts.  Refuted: the
\* on-demand run ends as error before it reads the mailbox, whatever the
\* mailbox holds.
C35_PipelinesEquivalent ==
    [][ \A t \in trig \ trig' :
          \A s \in EmptyMailboxRecords :
             \E j \in RunRecords(job_runs', t.id) :
                /\ j.status = s.status
                /\ j.messages_fetched = s.messages_fetched
                /\ j.messages_saved = s.messages_saved
      ]_vars

=============================================================================
